---- MODULE Spec2Model ----
(***************************************************************************)
(* Model of the copybook generator: CanvasGenerator (layout, grid walk,    *)
(* text validation), PDFGenerator (single page, multi page, practice       *)
(* sheets) and the HTTP routes that call them.                             *)
(*                                                                         *)
(* A text is a sequence of runs [c |-> character, n |-> repetitions], so   *)
(* that texts around the 2000 character cap stay small values.  A          *)
(* JavaScript number or option value is a record [t, v]: t = "int" with    *)
(* the integer v, "str" for a non-numeric string such as "abc", "nan",     *)
(* "inf" for +Infinity, "undef" for an absent option, "half" for the       *)
(* fraction v/2 with an odd v > 0 (0.5, 1.5, ...).                         *)
(***************************************************************************)
EXTENDS Integers, Sequences, FiniteSets, TLC

\* ---------------------------------------------------------------- bounds
MaxRuns == 3

\* ------------------------------------------------------------- JS values
Num(n) == [t |-> "int", v |-> n]
Str == [t |-> "str", v |-> 0]
NaN == [t |-> "nan", v |-> 0]
Infinity == [t |-> "inf", v |-> 0]
Undef == [t |-> "undef", v |-> 0]
Half(k) == [t |-> "half", v |-> k]

IsInt(x) == x.t = "int"

Min(a, b) == IF a <= b THEN a ELSE b
Max(a, b) == IF a >= b THEN a ELSE b

\* floor instead of ceil
CeilQuot_floor(a, b) ==
    LET p == IF b < 0 THEN -a ELSE a
        q == IF b < 0 THEN -b ELSE b
    IN  IF p >= 0 THEN p \div q ELSE -((-p + q - 1) \div q)

\* ceil(a / b) on integers, b # 0
CeilQuot(a, b) ==
    LET p == IF b < 0 THEN -a ELSE a
        q == IF b < 0 THEN -b ELSE b
    IN  IF p >= 0 THEN (p + q - 1) \div q ELSE -((-p) \div q)

\* Number(x): a non-numeric string and undefined convert to NaN
ToNumber(x) == IF x.t \in {"str", "undef"} THEN NaN ELSE x

\* parseInt(x)
parseInt(x) ==
    IF IsInt(x) THEN x
    ELSE IF x.t = "half" THEN Num(x.v \div 2)
    ELSE NaN

\* x || d where x is a number: NaN and 0 are falsy
OrDefault(x, d) == IF x.t = "nan" \/ (IsInt(x) /\ x.v = 0) THEN d ELSE x.v

\* truthiness of an option value: 0, NaN and undefined are falsy, "abc" is truthy
Truthy(x) ==
    CASE x.t = "int" -> x.v # 0
      [] x.t = "str" -> TRUE
      [] x.t = "inf" -> TRUE
      [] x.t = "half" -> TRUE
      [] OTHER -> FALSE

\* a * b
Times(a, b) ==
    LET x == ToNumber(a)
        y == ToNumber(b)
    IN  CASE x.t = "nan" \/ y.t = "nan" -> NaN
          [] x.t = "int" /\ y.t = "int" -> Num(x.v * y.v)
          [] x.t = "inf" /\ y.t = "int" /\ y.v = 0 -> NaN
          [] y.t = "inf" /\ x.t = "int" /\ x.v = 0 -> NaN
          [] OTHER -> Infinity

\* one more than Math.ceil(a / b): a spare row for every slice
CeilDiv_spare(a, b) ==
    LET y == ToNumber(b)
    IN  CASE y.t = "nan" -> NaN
          [] y.t = "inf" -> Num(IF a > 0 THEN 1 ELSE 0)
          [] y.v = 0 -> IF a = 0 THEN NaN ELSE Infinity
          [] OTHER -> Num(CeilQuot(a, y.v) + 1)

\* Math.ceil(a / b) with an integer a >= 0
CeilDiv(a, b) ==
    LET y == ToNumber(b)
    IN  CASE y.t = "nan" -> NaN
          [] y.t = "inf" -> Num(IF a > 0 THEN 1 ELSE 0)
          [] y.t = "half" -> Num(CeilQuot(2 * a, y.v))
          [] y.v = 0 -> IF a = 0 THEN NaN ELSE Infinity
          [] OTHER -> Num(CeilQuot(a, y.v))

\* the first argument whatever the second is
MathMin_first(a, b) == ToNumber(a)

\* Math.min(a, b)
MathMin(a, b) ==
    LET x == ToNumber(a)
        y == ToNumber(b)
    IN  CASE x.t = "nan" \/ y.t = "nan" -> NaN
          [] x.t = "inf" -> y
          [] y.t = "inf" -> x
          [] OTHER -> Num(Min(x.v, y.v))

\* a < b for an integer a
LessThan(a, b) ==
    LET y == ToNumber(b)
    IN  CASE y.t = "nan" -> FALSE
          [] y.t = "inf" -> TRUE
          [] OTHER -> a < y.v

\* ------------------------------------------------------------------ texts
WhiteSpace == {" "}
Alphabet == {"a", "b", " "}

RECURSIVE Length(_)
Length(s) == IF s = <<>> THEN 0 ELSE Head(s).n + Length(Tail(s))

\* canonical form: no empty run, no two adjacent runs of one character
RECURSIVE Norm(_)
Norm(s) ==
    IF s = <<>> THEN <<>>
    ELSE IF Head(s).n = 0 THEN Norm(Tail(s))
    ELSE LET r == Norm(Tail(s))
         IN  IF r # <<>> /\ Head(r).c = Head(s).c
             THEN <<[c |-> Head(s).c, n |-> Head(s).n + Head(r).n]>> \o Tail(r)
             ELSE <<Head(s)>> \o r

IsWS(r) == r.c \in WhiteSpace

RECURSIVE DropLeadingWS(_)
DropLeadingWS(s) ==
    IF s # <<>> /\ IsWS(Head(s)) THEN DropLeadingWS(Tail(s)) ELSE s

RECURSIVE DropTrailingWS(_)
DropTrailingWS(s) ==
    IF s # <<>> /\ IsWS(s[Len(s)]) THEN DropTrailingWS(SubSeq(s, 1, Len(s) - 1)) ELSE s

\* String.prototype.trim
trim(s) == DropTrailingWS(DropLeadingWS(s))

\* text.replace(/\s+/g, '')
replaceWS(s) == Norm(SelectSeq(s, LAMBDA r : ~IsWS(r)))

\* .split('').filter(char => char.trim()): a character whose trim is '' is dropped
filterChars(s) == Norm(SelectSeq(s, LAMBDA r : trim(<<[c |-> r.c, n |-> 1]>>) # <<>>))

\* the character stream of a text
Stream(s) == filterChars(replaceWS(s))

\* the first k characters of s
RECURSIVE Take(_, _)
Take(s, k) ==
    IF s = <<>> \/ k <= 0 THEN <<>>
    ELSE IF Head(s).n <= k THEN <<Head(s)>> \o Take(Tail(s), k - Head(s).n)
    ELSE <<[c |-> Head(s).c, n |-> k]>>

\* s without its first k characters
RECURSIVE Drop(_, _)
Drop(s, k) ==
    IF s = <<>> \/ k <= 0 THEN s
    ELSE IF Head(s).n <= k THEN Drop(Tail(s), k - Head(s).n)
    ELSE <<[c |-> Head(s).c, n |-> Head(s).n - k]>> \o Tail(s)

\* Array.prototype.slice(start, end) with integer arguments
slice(s, start, end) ==
    LET len == Length(s)
        from == IF start < 0 THEN Max(len + start, 0) ELSE Min(start, len)
        to == IF end < 0 THEN Max(len + end, 0) ELSE Min(end, len)
    IN  IF to <= from THEN <<>> ELSE Take(Drop(s, from), to - from)

\* the string inputs: every text of at most MaxRuns runs with lengths in lens,
\* written canonically
Strings(lens) ==
    {s \in UNION {[1..k -> [c : Alphabet, n : lens]] : k \in 0..MaxRuns} : Norm(s) = s}
NonString == [isString |-> FALSE, runs |-> <<>>]
String(s) == [isString |-> TRUE, runs |-> s]
\* texts around the 2000 character cap, and texts of a few pages
LongTexts == {String(s) : s \in Strings({1, 150, 1999})} \cup {NonString}
ShortTexts == {String(s) : s \in Strings({20, 150})} \cup {NonString}
\* texts of a few characters and of more than a grid holds
LayoutTexts == {String(s) : s \in Strings({4, 150})} \cup {NonString}

\* -------------------------------------------------------- CanvasGenerator
A4_WIDTH_MM == 210
A4_HEIGHT_MM == 297
DPI == 300
\* Math.floor((mm / 25.4) * DPI)
A4_WIDTH_PX == (A4_WIDTH_MM * DPI * 10) \div 254
A4_HEIGHT_PX == (A4_HEIGHT_MM * DPI * 10) \div 254
padding == 40
MaxTextLength == 2000

NoLayout == [cellSize |-> 0, totalWidth |-> 0, totalHeight |-> 0,
             charsPerRow |-> 0, rowCount |-> 0]

\* the content area calculateA4Layout divides
contentWidth == A4_WIDTH_PX - (2 * padding)
contentHeight == A4_HEIGHT_PX - (2 * padding)

\* a layout with the larger candidate cell: the grid overflows one axis
calculateA4Layout_max(charsPerRow, rowCount) ==
    LET cellWidth == contentWidth \div charsPerRow
        cellHeight == contentHeight \div rowCount
        optimalCellSize == Max(cellWidth, cellHeight)
    IN  [cellSize |-> optimalCellSize,
         totalWidth |-> charsPerRow * optimalCellSize + (2 * padding),
         totalHeight |-> rowCount * optimalCellSize + (2 * padding),
         charsPerRow |-> charsPerRow,
         rowCount |-> rowCount]

\* a layout whose cell is one pixel short of the largest that fits
calculateA4Layout_short(charsPerRow, rowCount) ==
    LET cellWidth == contentWidth \div charsPerRow
        cellHeight == contentHeight \div rowCount
        optimalCellSize == Min(cellWidth, cellHeight) - 1
    IN  [cellSize |-> optimalCellSize,
         totalWidth |-> charsPerRow * optimalCellSize + (2 * padding),
         totalHeight |-> rowCount * optimalCellSize + (2 * padding),
         charsPerRow |-> charsPerRow,
         rowCount |-> rowCount]

calculateA4Layout(charsPerRow, rowCount) ==
    LET cellWidth == contentWidth \div charsPerRow
        cellHeight == contentHeight \div rowCount
        optimalCellSize == Min(cellWidth, cellHeight)
    IN  [cellSize |-> optimalCellSize,
         totalWidth |-> charsPerRow * optimalCellSize + (2 * padding),
         totalHeight |-> rowCount * optimalCellSize + (2 * padding),
         charsPerRow |-> charsPerRow,
         rowCount |-> rowCount]

\* Math.max(1, Math.min(20, parseInt(charsPerRow) || 15))
clampCharsPerRow(charsPerRow) == Max(1, Min(20, OrDefault(parseInt(charsPerRow), 15)))

\* Math.max(1, Math.min(30, parseInt(rowCount) || 5))
clampRowCount(rowCount) == Max(1, Min(30, OrDefault(parseInt(rowCount), 5)))

\* a grid walk that leaves the last row empty
RECURSIVE drawCharacters_shortRow(_, _, _, _, _)
drawCharacters_shortRow(row, charIndex, charsPerRow, rowCount, length) ==
    IF row < rowCount - 1 /\ charIndex < length
    THEN drawCharacters_shortRow(row + 1, charIndex + Min(charsPerRow, length - charIndex),
                                 charsPerRow, rowCount, length)
    ELSE charIndex

\* the grid walk of generateCopybook: the inner loop fills one row
RECURSIVE drawCharacters(_, _, _, _, _)
drawCharacters(row, charIndex, charsPerRow, rowCount, length) ==
    IF row < rowCount /\ charIndex < length
    THEN drawCharacters(row + 1, charIndex + Min(charsPerRow, length - charIndex),
                        charsPerRow, rowCount, length)
    ELSE charIndex

\* a grid walk that leaves every second row of the grid empty
RECURSIVE drawnRows_skipRow(_, _, _, _, _)
drawnRows_skipRow(row, charIndex, charsPerRow, rowCount, characters) ==
    IF row < rowCount /\ charIndex < Length(characters)
    THEN LET count == Min(charsPerRow, Length(characters) - charIndex)
         IN  <<[row |-> row, col |-> 0, charIndex |-> charIndex,
                chars |-> slice(characters, charIndex, charIndex + count)]>>
             \o drawnRows_skipRow(row + 2, charIndex + count, charsPerRow, rowCount,
                                  characters)
    ELSE <<>>

\* what the grid walk draws, row by row: the inner loop puts the characters
\* chars = characters[charIndex..] of one row into the columns col, col + 1, ...
RECURSIVE drawnRows(_, _, _, _, _)
drawnRows(row, charIndex, charsPerRow, rowCount, characters) ==
    IF row < rowCount /\ charIndex < Length(characters)
    THEN LET count == Min(charsPerRow, Length(characters) - charIndex)
         IN  <<[row |-> row, col |-> 0, charIndex |-> charIndex,
                chars |-> slice(characters, charIndex, charIndex + count)]>>
             \o drawnRows(row + 1, charIndex + count, charsPerRow, rowCount, characters)
    ELSE <<>>

\* generateCopybook(text, fontType, charsPerRow, rowCount) on a string text
generateCopybook(text, charsPerRow, rowCount) ==
    LET cpr == clampCharsPerRow(charsPerRow)
        rc == clampRowCount(rowCount)
        layout == calculateA4Layout(cpr, rc)
        characters == Stream(text)
    IN  [layout |-> layout,
         charactersDrawn |-> drawCharacters(0, 0, cpr, rc, Length(characters)),
         totalCharacters |-> Length(characters),
         rows |-> drawnRows(0, 0, cpr, rc, characters)]

\* a validation that measures the whitespace-stripped stream
validateText_stream(text) ==
    IF ~text.isString \/ text.runs = <<>>
    THEN [ok |-> FALSE, cleanText |-> <<>>, error |-> "required"]
    ELSE LET cleanText == trim(text.runs)
         IN  IF Length(Stream(cleanText)) = 0
             THEN [ok |-> FALSE, cleanText |-> <<>>, error |-> "empty"]
             ELSE IF Length(Stream(cleanText)) > MaxTextLength
             THEN [ok |-> FALSE, cleanText |-> <<>>, error |-> "too long"]
             ELSE [ok |-> TRUE, cleanText |-> cleanText, error |-> "none"]

\* validateText(text): "ok" with the trimmed text, or the error thrown
validateText(text) ==
    IF ~text.isString \/ text.runs = <<>>
    THEN [ok |-> FALSE, cleanText |-> <<>>, error |-> "required"]
    ELSE LET cleanText == trim(text.runs)
         IN  IF Length(cleanText) = 0
             THEN [ok |-> FALSE, cleanText |-> <<>>, error |-> "empty"]
             ELSE IF Length(cleanText) > MaxTextLength
             THEN [ok |-> FALSE, cleanText |-> <<>>, error |-> "too long"]
             ELSE [ok |-> TRUE, cleanText |-> cleanText, error |-> "none"]

\* ----------------------------------------------------------------- inputs
CharsPerRowInputs == {Num(0), Num(10), Num(21), Str}
RowCountInputs == {Num(0), Num(10), Num(15), Num(31), Str}
PageBreakInputs == {Num(-5), Num(0), Num(40), Num(150), Num(600), Str, Undef}
LargePageBreaks == {Num(0), Num(600), Str}
GridInputs == {Num(n) : n \in -1..32} \cup {Str}
MaxCopies == 2

\* ------------------------------------------------------------ PDF geometry
\* Lengths in points are fractions n/d in lowest terms with d > 0: the page
\* is 595.28 x 841.89 points and the scale is a quotient of such lengths.
RECURSIVE Gcd(_, _)
Gcd(a, b) == IF b = 0 THEN a ELSE Gcd(b, a % b)
Abs(n) == IF n < 0 THEN -n ELSE n
Frac(n, d) == LET g == Gcd(Abs(n), d) IN [n |-> n \div g, d |-> d \div g]
Whole(n) == [n |-> n, d |-> 1]

\* x * y, x / y (y > 0), x + y, x - y, x / 2, x <= y and Math.min(x, y)
FracMul(x, y) ==
    LET g1 == Gcd(Abs(x.n), y.d)
        g2 == Gcd(Abs(y.n), x.d)
    IN  [n |-> (x.n \div g1) * (y.n \div g2), d |-> (x.d \div g2) * (y.d \div g1)]
FracDiv(x, y) == FracMul(x, [n |-> y.d, d |-> y.n])
FracAdd(x, y) ==
    LET g == Gcd(x.d, y.d)
    IN  Frac(x.n * (y.d \div g) + y.n * (x.d \div g), (x.d \div g) * y.d)
FracSub(x, y) == FracAdd(x, [n |-> -y.n, d |-> y.d])
FracHalf(x) == Frac(x.n, 2 * x.d)
FracLE(x, y) ==
    LET g == Gcd(x.d, y.d)
    IN  x.n * (y.d \div g) <= y.n * (x.d \div g)
FracMin(x, y) == IF FracLE(x, y) THEN x ELSE y

A4_WIDTH_POINTS == Frac(59528, 100)
A4_HEIGHT_POINTS == Frac(84189, 100)
margins == [top |-> Whole(40), bottom |-> Whole(40), left |-> Whole(40), right |-> Whole(40)]
availableWidth == FracSub(FracSub(A4_WIDTH_POINTS, margins.left), margins.right)
availableHeight == FracSub(FracSub(A4_HEIGHT_POINTS, margins.top), margins.bottom)

\* an image stretched to the whole content area, each axis with its own scale
calculateImageDimensions_stretch(canvasWidth, canvasHeight) ==
    LET scaleX == FracDiv(availableWidth, Whole(canvasWidth))
        scaleY == FracDiv(availableHeight, Whole(canvasHeight))
    IN  [width |-> FracMul(Whole(canvasWidth), scaleX),
         height |-> FracMul(Whole(canvasHeight), scaleY),
         scale |-> FracMin(scaleX, scaleY)]

calculateImageDimensions(canvasWidth, canvasHeight) ==
    LET scaleX == FracDiv(availableWidth, Whole(canvasWidth))
        scaleY == FracDiv(availableHeight, Whole(canvasHeight))
        scale == FracMin(scaleX, scaleY)
    IN  [width |-> FracMul(Whole(canvasWidth), scale),
         height |-> FracMul(Whole(canvasHeight), scale),
         scale |-> scale]

\* the image of a canvas as doc.image places it: centered in the content area
NoImage == [canvasWidth |-> 0, canvasHeight |-> 0, x |-> Whole(0), y |-> Whole(0),
            width |-> Whole(0), height |-> Whole(0), scale |-> Whole(0)]
placeImage(canvasWidth, canvasHeight) ==
    LET imageDimensions == calculateImageDimensions(canvasWidth, canvasHeight)
    IN  [canvasWidth |-> canvasWidth, canvasHeight |-> canvasHeight,
         x |-> FracAdd(margins.left,
                       FracHalf(FracSub(availableWidth, imageDimensions.width))),
         y |-> FracAdd(margins.top,
                       FracHalf(FracSub(availableHeight, imageDimensions.height))),
         width |-> imageDimensions.width,
         height |-> imageDimensions.height,
         scale |-> imageDimensions.scale]

\* ------------------------------------------------------------------ state
VARIABLES
    pc,        \* "idle", "multiPage", "sheets", "done" or "error"
    call,      \* the entry point and its arguments
    mp,        \* generateMultiPagePDF's locals
    doc,       \* the PDF document under construction
    lastPage,  \* the page the loop produced last
    copy,      \* generatePracticeSheets' loop counter
    log,       \* canvases created and grid values used by this call
    result,    \* what the caller receives
    loadedFonts,  \* CanvasGenerator.loadedFonts: font type -> family name
    suspended     \* the requests waiting at an await while this one runs

vars == <<pc, call, mp, doc, lastPage, copy, log, result, loadedFonts, suspended>>

\* ------------------------------------------------------------------ fonts
\* the keys of fontMappings and the family registered for each font file
FontKeys == {"serif", "sans-serif", "cursive", "fantasy"}
fontMappings ==
    [key \in FontKeys |->
        [name |-> CASE key = "serif" -> "Noto Serif CJK SC Light"
                    [] key = "sans-serif" -> "Noto Sans CJK SC Light"
                    [] key = "cursive" -> "ZCOOL KuaiLe"
                    [] key = "fantasy" -> "ZCOOL XiaoWei",
         fallback |-> key]]

\* the table initializeFonts builds when the font files of `present` exist
\* and register; a missing file or a failed registration gives the fallback
initializeFonts(present) ==
    [key \in FontKeys |-> IF key \in present THEN fontMappings[key].name
                          ELSE fontMappings[key].fallback]

\* this.loadedFonts.get(fontType) || 'serif'
getFontFamily(fontType) ==
    IF fontType \in DOMAIN loadedFonts THEN loadedFonts[fontType] ELSE "serif"

\* the parameter default fontType = 'serif' for an absent argument
fontTypeOrDefault(fontType) == IF fontType = "undefined" THEN "serif" ELSE fontType

NoCall == [entry |-> "none", text |-> NonString, charsPerRow |-> Undef,
           rowCount |-> Undef, pageBreakAfter |-> Undef, multiPage |-> FALSE,
           copies |-> 0, includeAnswer |-> FALSE, fontType |-> "undefined"]
NoLocals == [characters |-> <<>>, totalChars |-> 0, totalPages |-> Undef,
             pageBreakAfter |-> Undef, page |-> 0, processedChars |-> 0]
NoDoc == [created |-> FALSE, images |-> 0, addPages |-> 0, emitted |-> <<>>,
          overfull |-> 0]
NewDoc == [NoDoc EXCEPT !.created = TRUE]
NoPage == [index |-> -1, text |-> <<>>, startIndex |-> 0, endIndex |-> 0,
           pagesNeeded |-> Undef, actualRowCount |-> Undef, layout |-> NoLayout,
           charactersDrawn |-> 0, footer |-> <<Undef, Undef>>, image |-> NoImage,
           ops |-> <<>>]
NoLog == [canvases |-> 0, usedCharsPerRow |-> {}, usedRowCount |-> {}]
NoResult == [status |-> "none", error |-> "none", http |-> 0, hasPdf |-> FALSE,
             layout |-> NoLayout, charactersDrawn |-> 0, totalCharacters |-> 0,
             totalPages |-> Undef, pages |-> 0, fontFamily |-> "none",
             rows |-> <<>>, image |-> NoImage]

Failure(error, http) == [NoResult EXCEPT !.status = "error", !.error = error, !.http = http]

\* the log after one generateCopybook call: its layout and canvas, and the
\* clamped values its layout and grid walk use
logCopybook(l, charsPerRow, rowCount) ==
    [l EXCEPT !.canvases = @ + 1,
              !.usedCharsPerRow = @ \cup {Num(clampCharsPerRow(charsPerRow))},
              !.usedRowCount = @ \cup {Num(clampRowCount(rowCount))}]

\* the result object built from generateCopybook's return value
copybookResult(r, http, hasPdf) ==
    [NoResult EXCEPT !.status = "ok", !.http = http, !.hasPdf = hasPdf,
                     !.layout = r.layout, !.charactersDrawn = r.charactersDrawn,
                     !.totalCharacters = r.totalCharacters, !.rows = r.rows,
                     !.pages = IF hasPdf THEN 1 ELSE 0,
                     !.image = IF hasPdf
                               THEN placeImage(r.layout.totalWidth, r.layout.totalHeight)
                               ELSE NoImage]

Init ==
    /\ pc = "idle"
    /\ call = NoCall
    /\ mp = NoLocals
    /\ doc = NoDoc
    /\ lastPage = NoPage
    /\ copy = 0
    /\ log = NoLog
    /\ result = NoResult
    /\ loadedFonts = initializeFonts({})
    /\ suspended = <<>>

\* CanvasGenerator.generateCopybook called directly (generatePracticeCopybook
\* and generateAndExport pass their arguments through to it).  A text that
\* is no string throws at text.replace, after the canvas was created.
CallGenerateCopybook(entry, text, fontType, charsPerRow, rowCount) ==
    /\ pc = "idle"
    /\ call' = [NoCall EXCEPT !.entry = entry, !.text = text, !.fontType = fontType,
                              !.charsPerRow = charsPerRow, !.rowCount = rowCount]
    /\ log' = logCopybook(log, charsPerRow, rowCount)
    /\ IF text.isString
       THEN /\ result' = [copybookResult(generateCopybook(text.runs, charsPerRow, rowCount),
                                         0, FALSE)
                             EXCEPT !.fontFamily = getFontFamily(fontTypeOrDefault(fontType))]
            /\ pc' = "done"
       ELSE /\ result' = Failure("TypeError", 0)
            /\ pc' = "error"
    /\ UNCHANGED <<mp, doc, lastPage, copy, loadedFonts, suspended>>

\* router.post('/generate') and router.post('/export/image')
RouteGenerate(entry, text, charsPerRow, rowCount) ==
    /\ pc = "idle"
    /\ call' = [NoCall EXCEPT !.entry = entry, !.text = text,
                              !.charsPerRow = charsPerRow, !.rowCount = rowCount]
    /\ IF ~text.isString
       THEN \* text.trim is not a function: caught, status 500
            /\ result' = Failure("TypeError", 500)
            /\ pc' = "error"
            /\ log' = log
       ELSE IF text.runs = <<>> \/ trim(text.runs) = <<>>
       THEN /\ result' = Failure("required", 400)
            /\ pc' = "error"
            /\ log' = log
       ELSE LET validatedCharsPerRow == Num(OrDefault(parseInt(charsPerRow), 10))
                validatedRowCount == Num(OrDefault(parseInt(rowCount), 10))
            IN  /\ result' = copybookResult(
                                generateCopybook(trim(text.runs), validatedCharsPerRow,
                                                 validatedRowCount), 200, FALSE)
                /\ log' = logCopybook(log, validatedCharsPerRow, validatedRowCount)
                /\ pc' = "done"
    /\ UNCHANGED <<mp, doc, lastPage, copy, loadedFonts, suspended>>

\* ----------------------------------------------------------- PDFGenerator
\* the locals of a generateMultiPagePDF that keeps its character counter in
\* the shared generator: the count goes on from a waiting request's count
multiPageLocals_carry(text, pageBreakAfter) ==
    LET pba == IF pageBreakAfter = Undef THEN Num(150) ELSE pageBreakAfter
        characters == Stream(text)
        totalChars == Length(characters)
    IN  [characters |-> characters, totalChars |-> totalChars,
         totalPages |-> CeilDiv(totalChars, pba), pageBreakAfter |-> pba,
         page |-> 0,
         processedChars |-> IF suspended = <<>> THEN 0
                            ELSE suspended[1].mp.processedChars]

\* the locals of generateMultiPagePDF before its loop; an absent
\* pageBreakAfter takes the destructuring default 150
multiPageLocals(text, pageBreakAfter) ==
    LET pba == IF pageBreakAfter = Undef THEN Num(150) ELSE pageBreakAfter
        characters == Stream(text)
        totalChars == Length(characters)
    IN  [characters |-> characters, totalChars |-> totalChars,
         totalPages |-> CeilDiv(totalChars, pba), pageBreakAfter |-> pba,
         page |-> 0, processedChars |-> 0]

\* PDFGenerator.generatePDF(text, options)
CallGeneratePDF(text, charsPerRow, rowCount, multiPage, pageBreakAfter) ==
    /\ pc = "idle"
    /\ call' = [NoCall EXCEPT !.entry = "generatePDF", !.text = text,
                              !.charsPerRow = charsPerRow, !.rowCount = rowCount,
                              !.multiPage = multiPage, !.pageBreakAfter = pageBreakAfter]
    /\ LET v == validateText(text)
       IN  IF ~v.ok
           THEN /\ result' = Failure(v.error, 0)
                /\ pc' = "error"
                /\ UNCHANGED <<mp, doc, log>>
           ELSE IF multiPage /\ Truthy(pageBreakAfter)
           THEN /\ mp' = multiPageLocals(v.cleanText, pageBreakAfter)
                /\ doc' = NewDoc
                /\ pc' = "multiPage"
                /\ UNCHANGED <<log, result>>
           ELSE /\ result' = copybookResult(
                                generateCopybook(v.cleanText, charsPerRow, rowCount), 0, TRUE)
                /\ log' = logCopybook(log, charsPerRow, rowCount)
                /\ doc' = [NewDoc EXCEPT !.images = 1]
                /\ pc' = "done"
                /\ mp' = mp
    /\ UNCHANGED <<lastPage, copy, loadedFonts, suspended>>

\* router.post('/export/pdf'): generatePDF without multiPage
RouteExportPdf(text, charsPerRow, rowCount) ==
    /\ pc = "idle"
    /\ call' = [NoCall EXCEPT !.entry = "/export/pdf", !.text = text,
                              !.charsPerRow = charsPerRow, !.rowCount = rowCount]
    /\ IF ~text.isString
       THEN /\ result' = Failure("TypeError", 500)
            /\ pc' = "error"
            /\ UNCHANGED <<log, doc>>
       ELSE IF text.runs = <<>> \/ trim(text.runs) = <<>>
       THEN /\ result' = Failure("required", 400)
            /\ pc' = "error"
            /\ UNCHANGED <<log, doc>>
       ELSE LET validatedCharsPerRow == Num(OrDefault(parseInt(charsPerRow), 10))
                validatedRowCount == Num(OrDefault(parseInt(rowCount), 10))
                v == validateText(String(trim(text.runs)))
            IN  IF ~v.ok
                THEN /\ result' = Failure(v.error, 500)
                     /\ pc' = "error"
                     /\ UNCHANGED <<log, doc>>
                ELSE /\ result' = copybookResult(
                                     generateCopybook(v.cleanText, validatedCharsPerRow,
                                                      validatedRowCount), 200, TRUE)
                     /\ log' = logCopybook(log, validatedCharsPerRow, validatedRowCount)
                     /\ doc' = [NewDoc EXCEPT !.images = 1]
                     /\ pc' = "done"
    /\ UNCHANGED <<mp, lastPage, copy, loadedFonts, suspended>>

\* PDFGenerator.generateMultiPagePDF(text, options) called directly
CallGenerateMultiPagePDF(text, charsPerRow, rowCount, pageBreakAfter) ==
    /\ pc = "idle"
    /\ call' = [NoCall EXCEPT !.entry = "generateMultiPagePDF", !.text = text,
                              !.charsPerRow = charsPerRow, !.rowCount = rowCount,
                              !.pageBreakAfter = pageBreakAfter]
    /\ doc' = NewDoc
    /\ IF text.isString
       THEN /\ mp' = multiPageLocals(text.runs, pageBreakAfter)
            /\ pc' = "multiPage"
            /\ result' = result
       ELSE \* text.replace is not a function
            /\ result' = Failure("TypeError", 0)
            /\ pc' = "error"
            /\ mp' = mp
    /\ UNCHANGED <<lastPage, copy, log, loadedFonts, suspended>>

\* a start index that skips one character between pages
startIndexOf_skip(m) == m.page * m.pageBreakAfter.v + m.page

\* the slice of the loop's current page; slice truncates a fractional
\* index, and the indexes are kept as slice takes them
startIndexOf(m) ==
    IF m.pageBreakAfter.t = "half" THEN (m.page * m.pageBreakAfter.v) \div 2
    ELSE m.page * m.pageBreakAfter.v
endIndexOf(m) ==
    IF m.pageBreakAfter.t = "half"
    THEN Min(((m.page + 1) * m.pageBreakAfter.v) \div 2, m.totalChars)
    ELSE Min(startIndexOf(m) + m.pageBreakAfter.v, m.totalChars)
pageTextOf(m) == slice(m.characters, startIndexOf(m), endIndexOf(m))

\* a footer that numbers the pages from 0
footerOf_zeroBased(m) == <<Num(m.page), m.totalPages>>

\* the numbers in the footer text of the loop's current page:
\* page + 1 and totalPages
footerOf(m) == <<Num(m.page + 1), m.totalPages>>

\* what one iteration does to the document, in the order of its statements
pageOps(m) == (IF m.page > 0 THEN <<"addPage">> ELSE <<>>) \o <<"image", "text">>

\* the loop condition page < totalPages
inLoop == pc = "multiPage" /\ LessThan(mp.page, mp.totalPages)

\* one iteration of the loop: lay out, render and place one page
MultiPagePage ==
    /\ inLoop
    /\ Length(pageTextOf(mp)) # 0
    /\ LET pageText == pageTextOf(mp)
           charsInPage == Length(pageText)
           pagesNeeded == CeilDiv(charsInPage, Times(call.charsPerRow, call.rowCount))
           actualRowCount == MathMin(call.rowCount, CeilDiv(charsInPage, call.charsPerRow))
           canvasResult == generateCopybook(pageText, call.charsPerRow, actualRowCount)
       IN  /\ log' = [logCopybook(log, call.charsPerRow, actualRowCount) EXCEPT
                         !.usedCharsPerRow = @ \cup {call.charsPerRow},
                         !.usedRowCount = @ \cup {call.rowCount}]
           /\ doc' = [doc EXCEPT !.addPages = IF mp.page > 0 THEN @ + 1 ELSE @,
                                 !.images = @ + 1,
                                 !.emitted = Norm(@ \o pageText),
                                 !.overfull = IF canvasResult.charactersDrawn < charsInPage
                                              THEN @ + 1 ELSE @]
           /\ lastPage' = [index |-> mp.page, text |-> pageText,
                           startIndex |-> startIndexOf(mp), endIndex |-> endIndexOf(mp),
                           pagesNeeded |-> pagesNeeded, actualRowCount |-> actualRowCount,
                           layout |-> canvasResult.layout,
                           charactersDrawn |-> canvasResult.charactersDrawn,
                           footer |-> footerOf(mp), ops |-> pageOps(mp),
                           image |-> placeImage(canvasResult.layout.totalWidth,
                                                canvasResult.layout.totalHeight)]
           /\ mp' = [mp EXCEPT !.page = @ + 1,
                               !.processedChars = @ + canvasResult.charactersDrawn]
    /\ UNCHANGED <<pc, call, copy, result, loadedFonts, suspended>>

\* the value of a generateMultiPagePDF whose document is shared by the
\* requests: the pages of the waiting requests are counted too
multiPageResult_sharedDoc ==
    [NoResult EXCEPT !.status = "ok", !.hasPdf = TRUE, !.totalPages = mp.totalPages,
                     !.charactersDrawn = mp.processedChars,
                     !.totalCharacters = mp.totalChars,
                     !.pages = doc.images + (IF suspended = <<>> THEN 0
                                             ELSE suspended[1].doc.images)]

\* the value generateMultiPagePDF returns
multiPageResult ==
    [NoResult EXCEPT !.status = "ok", !.hasPdf = TRUE, !.totalPages = mp.totalPages,
                     !.charactersDrawn = mp.processedChars,
                     !.totalCharacters = mp.totalChars, !.pages = doc.images]

\* an empty slice that is skipped without leaving the loop or advancing it
MultiPageBreak_spin ==
    /\ inLoop
    /\ Length(pageTextOf(mp)) = 0
    /\ UNCHANGED vars

\* if (pageText.length === 0) break
MultiPageBreak ==
    /\ inLoop
    /\ Length(pageTextOf(mp)) = 0
    /\ result' = multiPageResult
    /\ pc' = "done"
    /\ UNCHANGED <<call, mp, doc, lastPage, copy, log, loadedFonts, suspended>>

\* the loop ends and the function returns
MultiPageReturn ==
    /\ pc = "multiPage"
    /\ ~LessThan(mp.page, mp.totalPages)
    /\ result' = multiPageResult
    /\ pc' = "done"
    /\ UNCHANGED <<call, mp, doc, lastPage, copy, log, loadedFonts, suspended>>

\* a failure that is caught and ends the loop: the pages so far are returned
MultiPageFail_partial ==
    /\ inLoop
    /\ Length(pageTextOf(mp)) # 0
    /\ result' = multiPageResult
    /\ pc' = "done"
    /\ UNCHANGED <<call, mp, doc, lastPage, copy, log, loadedFonts, suspended>>

\* rendering or encoding of the current page throws (canvas.toBuffer,
\* doc.image): the promise rejects, through generatePDF's return too
MultiPageFail ==
    /\ inLoop
    /\ Length(pageTextOf(mp)) # 0
    /\ result' = Failure("RenderError", 0)
    /\ pc' = "error"
    /\ UNCHANGED <<call, mp, doc, lastPage, copy, log, loadedFonts, suspended>>

\* PDFGenerator.generatePracticeSheets(text, copies, options): the answer sheet
CallGeneratePracticeSheets(text, copies, charsPerRow, rowCount, includeAnswer) ==
    /\ pc = "idle"
    /\ call' = [NoCall EXCEPT !.entry = "generatePracticeSheets", !.text = text,
                              !.charsPerRow = charsPerRow, !.rowCount = rowCount,
                              !.copies = copies, !.includeAnswer = includeAnswer]
    /\ copy' = 0
    /\ IF ~includeAnswer
       THEN /\ doc' = NewDoc
            /\ pc' = "sheets"
            /\ UNCHANGED <<log, result>>
       ELSE /\ log' = logCopybook(log, charsPerRow, rowCount)
            /\ IF text.isString
               THEN /\ doc' = [NewDoc EXCEPT !.images = 1]
                    /\ pc' = "sheets"
                    /\ result' = result
               ELSE /\ doc' = NewDoc
                    /\ result' = Failure("TypeError", 0)
                    /\ pc' = "error"
    /\ UNCHANGED <<mp, lastPage, loadedFonts, suspended>>

\* one practice copy
SheetsCopy ==
    /\ pc = "sheets"
    /\ copy < call.copies
    /\ log' = logCopybook(log, call.charsPerRow, call.rowCount)
    /\ IF call.text.isString
       THEN /\ doc' = [doc EXCEPT !.addPages = IF call.includeAnswer \/ copy > 0
                                                THEN @ + 1 ELSE @,
                                  !.images = @ + 1]
            /\ copy' = copy + 1
            /\ UNCHANGED <<pc, result>>
       ELSE /\ doc' = [doc EXCEPT !.addPages = IF call.includeAnswer \/ copy > 0
                                                THEN @ + 1 ELSE @]
            /\ result' = Failure("TypeError", 0)
            /\ pc' = "error"
            /\ copy' = copy
    /\ UNCHANGED <<call, mp, lastPage, loadedFonts, suspended>>

SheetsReturn ==
    /\ pc = "sheets"
    /\ copy >= call.copies
    /\ result' = [NoResult EXCEPT !.status = "ok", !.hasPdf = TRUE,
                     !.pages = IF call.includeAnswer THEN call.copies + 1 ELSE call.copies]
    /\ pc' = "done"
    /\ UNCHANGED <<call, mp, doc, lastPage, copy, log, loadedFonts, suspended>>

\* the caller has its result; the next request starts from scratch
Return ==
    /\ pc \in {"done", "error"}
    /\ pc' = "idle"
    /\ call' = NoCall
    /\ mp' = NoLocals
    /\ doc' = NoDoc
    /\ lastPage' = NoPage
    /\ copy' = 0
    /\ log' = NoLog
    /\ result' = NoResult
    /\ UNCHANGED <<loadedFonts, suspended>>

\* every entry point, on texts around the cap
Next ==
    \/ /\ pc = "idle"
       /\ \E text \in LongTexts, charsPerRow \in CharsPerRowInputs, rowCount \in RowCountInputs :
             \E entry \in {"generateCopybook", "generateAndExport"} :
                CallGenerateCopybook(entry, text, "undefined", charsPerRow, rowCount)
    \/ /\ pc = "idle"
       /\ \E text \in LongTexts, charsPerRow \in CharsPerRowInputs, rowCount \in RowCountInputs :
             \E entry \in {"/generate", "/export/image"} :
                RouteGenerate(entry, text, charsPerRow, rowCount)
    \/ /\ pc = "idle"
       /\ \E text \in LongTexts, charsPerRow \in CharsPerRowInputs, rowCount \in RowCountInputs :
             RouteExportPdf(text, charsPerRow, rowCount)
    \/ /\ pc = "idle"
       /\ \E text \in LongTexts, charsPerRow \in CharsPerRowInputs, rowCount \in RowCountInputs :
             \E multiPage \in BOOLEAN :
                \E pageBreakAfter \in IF multiPage THEN LargePageBreaks ELSE {Undef} :
                   CallGeneratePDF(text, charsPerRow, rowCount, multiPage, pageBreakAfter)
    \/ /\ pc = "idle"
       /\ \E text \in LongTexts, charsPerRow \in CharsPerRowInputs, rowCount \in RowCountInputs :
             \E pageBreakAfter \in LargePageBreaks :
                CallGenerateMultiPagePDF(text, charsPerRow, rowCount, pageBreakAfter)
    \/ /\ pc = "idle"
       /\ \E text \in LongTexts, charsPerRow \in CharsPerRowInputs, rowCount \in RowCountInputs :
             \E copies \in 0..MaxCopies, includeAnswer \in BOOLEAN :
                CallGeneratePracticeSheets(text, copies, charsPerRow, rowCount, includeAnswer)
    \/ MultiPagePage
    \/ MultiPageBreak
    \/ MultiPageReturn
    \/ MultiPageFail
    \/ SheetsCopy
    \/ SheetsReturn
    \/ Return

Spec == Init /\ [][Next]_vars

\* pagination: the PDF entry points on texts of a few pages, every page size
NextPages ==
    \/ /\ pc = "idle"
       /\ \E text \in ShortTexts, charsPerRow \in CharsPerRowInputs, rowCount \in RowCountInputs :
             \E multiPage \in BOOLEAN :
                \E pageBreakAfter \in IF multiPage THEN PageBreakInputs ELSE {Undef} :
                   CallGeneratePDF(text, charsPerRow, rowCount, multiPage, pageBreakAfter)
    \/ /\ pc = "idle"
       /\ \E text \in ShortTexts, charsPerRow \in CharsPerRowInputs, rowCount \in RowCountInputs :
             \E pageBreakAfter \in PageBreakInputs :
                CallGenerateMultiPagePDF(text, charsPerRow, rowCount, pageBreakAfter)
    \/ MultiPagePage
    \/ MultiPageBreak
    \/ MultiPageReturn
    \/ MultiPageFail
    \/ Return

SpecPages == Init /\ [][NextPages]_vars

\* the layout: generateCopybook on every grid shape
NextLayout ==
    \/ /\ pc = "idle"
       /\ \E text \in LayoutTexts, charsPerRow \in GridInputs, rowCount \in GridInputs :
             CallGenerateCopybook("generateCopybook", text, "undefined", charsPerRow, rowCount)
    \/ Return

SpecLayout == Init /\ [][NextLayout]_vars

\* ------------------------------------------------------------ font tables
\* the generator as constructed with any set of the four font files present
InitFonts ==
    /\ pc = "idle"
    /\ call = NoCall
    /\ mp = NoLocals
    /\ doc = NoDoc
    /\ lastPage = NoPage
    /\ copy = 0
    /\ log = NoLog
    /\ result = NoResult
    /\ \E present \in SUBSET FontKeys : loadedFonts = initializeFonts(present)
    /\ suspended = <<>>

\* the fontType arguments: the four keys, an unknown key, the empty string
\* and an absent argument
FontTypeInputs == FontKeys \cup {"gothic", "", "undefined"}

\* generateCopybook with every fontType on every font table
NextFonts ==
    \/ /\ pc = "idle"
       /\ \E text \in ShortTexts, fontType \in FontTypeInputs :
             CallGenerateCopybook("generateCopybook", text, fontType, Num(10), Num(10))
    \/ Return

SpecFonts == InitFonts /\ [][NextFonts]_vars

\* ---------------------------------------------------- concurrent requests
\* The routes share the module-level generators.  One request runs at a time
\* and gives way only where it awaits (each loop iteration of
\* generateMultiPagePDF and generatePracticeSheets awaits its canvas) or when
\* it has settled; the other requests wait in `suspended` with their locals.
MaxRequests == 2

\* the running request: its position, arguments, locals and result
Frame == [pc |-> pc, call |-> call, mp |-> mp, doc |-> doc, lastPage |-> lastPage,
          copy |-> copy, log |-> log, result |-> result]

\* the running request awaits or has settled, and a new request is taken up
Suspend ==
    /\ pc \in {"multiPage", "sheets", "done", "error"}
    /\ Len(suspended) < MaxRequests - 1
    /\ suspended' = Append(suspended, Frame)
    /\ pc' = "idle"
    /\ call' = NoCall
    /\ mp' = NoLocals
    /\ doc' = NoDoc
    /\ lastPage' = NoPage
    /\ copy' = 0
    /\ log' = NoLog
    /\ result' = NoResult
    /\ UNCHANGED loadedFonts

\* the event loop continues the i-th waiting request in place of the running one
Resume(i) ==
    /\ i \in 1..Len(suspended)
    /\ pc' = suspended[i].pc
    /\ call' = suspended[i].call
    /\ mp' = suspended[i].mp
    /\ doc' = suspended[i].doc
    /\ lastPage' = suspended[i].lastPage
    /\ copy' = suspended[i].copy
    /\ log' = suspended[i].log
    /\ result' = suspended[i].result
    /\ suspended' = IF pc = "idle"
                    THEN SubSeq(suspended, 1, i - 1) \o SubSeq(suspended, i + 1, Len(suspended))
                    ELSE [suspended EXCEPT ![i] = Frame]
    /\ UNCHANGED loadedFonts

\* two valid texts: 170 characters, and 20 characters around blanks
ConcurrentTexts ==
    { String(<<[c |-> "a", n |-> 150], [c |-> "b", n |-> 20]>>),
      String(<<[c |-> "a", n |-> 10], [c |-> " ", n |-> 5], [c |-> "b", n |-> 10]>>) }

\* requests of every multi-step entry point, interleaved at their awaits;
\* no page fails to render
NextConcurrent ==
    \/ /\ pc = "idle"
       /\ \E text \in ConcurrentTexts, pageBreakAfter \in {Num(0), Num(40), Num(150)} :
             CallGenerateMultiPagePDF(text, Num(10), Num(10), pageBreakAfter)
    \/ /\ pc = "idle"
       /\ \E text \in ConcurrentTexts, multiPage \in BOOLEAN :
             CallGeneratePDF(text, Num(10), Num(10), multiPage,
                             IF multiPage THEN Num(150) ELSE Undef)
    \/ /\ pc = "idle"
       /\ \E text \in ConcurrentTexts, copies \in 1..MaxCopies :
             CallGeneratePracticeSheets(text, copies, Num(10), Num(10), TRUE)
    \/ /\ pc = "idle"
       /\ \E text \in ConcurrentTexts :
             RouteGenerate("/generate", text, Num(10), Num(10))
    \/ MultiPagePage
    \/ MultiPageBreak
    \/ MultiPageReturn
    \/ SheetsCopy
    \/ SheetsReturn
    \/ Return
    \/ Suspend
    \/ \E i \in 1..(MaxRequests - 1) : Resume(i)

SpecConcurrent == Init /\ [][NextConcurrent]_vars

\* ------------------------------------------------------------ termination
\* streams of 0, 20, 170 and 2000 characters
TerminationTexts ==
    { String(<<>>),
      String(<<[c |-> "a", n |-> 20]>>),
      String(<<[c |-> "a", n |-> 150], [c |-> "b", n |-> 20]>>),
      String(<<[c |-> "a", n |-> 1999], [c |-> "b", n |-> 1]>>) }

\* generateMultiPagePDF with every kind of pageBreakAfter
NextTermination ==
    \/ /\ pc = "idle"
       /\ \E text \in TerminationTexts, pageBreakAfter \in PageBreakInputs :
             CallGenerateMultiPagePDF(text, Num(10), Num(10), pageBreakAfter)
    \/ MultiPagePage
    \/ MultiPageBreak
    \/ MultiPageReturn
    \/ MultiPageFail
    \/ Return

\* an iteration of the loop with a non-empty slice can be taken: the state
\* predicate ENABLED <<MultiPagePage>>_vars (the step always advances mp.page)
PageEnabled == inLoop /\ Length(pageTextOf(mp)) # 0

\* the event loop continues every promise that resolves: no iteration of
\* the loop waits forever.  The first conjunct of the fairness is
\* WF_vars(MultiPagePage) with its ENABLED written out as PageEnabled.
SpecTermination ==
    /\ Init
    /\ [][NextTermination]_vars
    /\ ([]<>(~PageEnabled) \/ []<><<MultiPagePage>>_vars)
    /\ WF_vars(MultiPageBreak)
    /\ WF_vars(MultiPageReturn)

\* ---------------------------------------------------------- every grid
\* streams of 20, 170 and 320 characters
GridTexts ==
    { String(<<[c |-> "a", n |-> 20]>>),
      String(<<[c |-> "a", n |-> 150], [c |-> "b", n |-> 20]>>),
      String(<<[c |-> "a", n |-> 150], [c |-> "b", n |-> 150], [c |-> "a", n |-> 20]>>) }

\* single-page and multi-page documents on every grid of 1..20 x 1..30
NextGrid ==
    \/ /\ pc = "idle"
       /\ \E text \in GridTexts, charsPerRow \in 1..20, rowCount \in 1..30 :
             CallGeneratePDF(text, Num(charsPerRow), Num(rowCount), FALSE, Undef)
    \/ /\ pc = "idle"
       /\ \E text \in GridTexts, charsPerRow \in 1..20, rowCount \in 1..30 :
             \E pageBreakAfter \in {Num(40), Num(150)} :
                CallGenerateMultiPagePDF(text, Num(charsPerRow), Num(rowCount),
                                         pageBreakAfter)
    \/ MultiPagePage
    \/ MultiPageReturn
    \/ Return

SpecGrid == Init /\ [][NextGrid]_vars

\* ------------------------------------------------------------- page count
\* streams of 0, 20 and 170 characters
PageCountTexts ==
    { String(<<[c |-> " ", n |-> 20]>>),
      String(<<[c |-> "a", n |-> 20]>>),
      String(<<[c |-> "a", n |-> 150], [c |-> "b", n |-> 20]>>) }

\* chunk sizes of every kind: negative, 0, fractions below and above 1,
\* smaller and larger than the stream, non-numeric and absent
PageCountBreaks ==
    {Num(-5), Num(0), Half(1), Half(3), Half(81), Num(40), Num(150), Num(600), Str, Undef}

\* multi-page generation, direct and through generatePDF, no page failing
NextPageCount ==
    \/ /\ pc = "idle"
       /\ \E text \in PageCountTexts, pageBreakAfter \in PageCountBreaks :
             CallGeneratePDF(text, Num(10), Num(10), TRUE, pageBreakAfter)
    \/ /\ pc = "idle"
       /\ \E text \in PageCountTexts, pageBreakAfter \in PageCountBreaks :
             CallGenerateMultiPagePDF(text, Num(10), Num(10), pageBreakAfter)
    \/ MultiPagePage
    \/ MultiPageBreak
    \/ MultiPageReturn
    \/ Return

SpecPageCount == Init /\ [][NextPageCount]_vars

\* ================================================================ claims

\* C1 (as stated): every layout generateCopybook returns satisfies
\* cellSize * charsPerRow + 2 * padding <= contentWidth and
\* cellSize * rowCount + 2 * padding <= contentHeight.
C1_FitWithPaddingInContent ==
    (pc = "done" /\ call.entry = "generateCopybook") =>
        /\ result.layout.cellSize * result.layout.charsPerRow + 2 * padding <= contentWidth
        /\ result.layout.cellSize * result.layout.rowCount + 2 * padding <= contentHeight

\* C1 (amended): the grid alone fits the content area, and the grid with its
\* padding fits the page: cellSize * charsPerRow <= contentWidth,
\* cellSize * rowCount <= contentHeight, totalWidth <= A4_WIDTH_PX and
\* totalHeight <= A4_HEIGHT_PX, for every charsPerRow in 1..20 and rowCount
\* in 1..30.
C1_SquareCellFit ==
    (pc = "done" /\ call.entry = "generateCopybook") =>
        /\ result.layout.charsPerRow \in 1..20
        /\ result.layout.rowCount \in 1..30
        /\ result.layout.cellSize * result.layout.charsPerRow <= contentWidth
        /\ result.layout.cellSize * result.layout.rowCount <= contentHeight
        /\ result.layout.totalWidth
              = result.layout.cellSize * result.layout.charsPerRow + 2 * padding
        /\ result.layout.totalHeight
              = result.layout.cellSize * result.layout.rowCount + 2 * padding
        /\ result.layout.totalWidth <= A4_WIDTH_PX
        /\ result.layout.totalHeight <= A4_HEIGHT_PX

\* a layout whose cell is bound by the height: 7 columns of 30 rows
C1_Witness ==
    /\ pc = "done"
    /\ call.entry = "generateCopybook"
    /\ call.charsPerRow = Num(7)
    /\ call.rowCount = Num(30)
    /\ result.layout.cellSize = 114
    /\ result.layout.totalHeight = 3500

\* the whitespace-stripped characters of a text, in order
Stripped(s) == Norm(SelectSeq(s, LAMBDA r : r.c \notin WhiteSpace))

\* a chunk size that is a positive integer
PosInt(x) == x.t = "int" /\ x.v >= 1

\* a multi-page generation with a positive integer chunk size is under way or done
Paginating == pc \in {"multiPage", "done"} /\ PosInt(mp.pageBreakAfter)

\* C2: for every integer charsPerPage >= 1 the page slices are contiguous,
\* non-overlapping and in order (each slice starts where the pages before it
\* end and is that part of the stream), and after the last page their
\* concatenation is exactly the whitespace-stripped text.
C2_SlicesPartition ==
    Paginating =>
        /\ doc.emitted = Take(Stripped(call.text.runs), Length(doc.emitted))
        /\ lastPage.index >= 0 =>
              /\ lastPage.endIndex = Length(doc.emitted)
              /\ lastPage.startIndex + Length(lastPage.text) = lastPage.endIndex
              /\ lastPage.text = Drop(doc.emitted, lastPage.startIndex)
        /\ pc = "done" => doc.emitted = Stripped(call.text.runs)

\* three pages or more of a text with whitespace inside and two different characters
C2_Witness ==
    /\ pc = "done"
    /\ PosInt(mp.pageBreakAfter)
    /\ doc.images >= 3
    /\ Len(doc.emitted) = 2
    /\ Len(call.text.runs) = 3
    /\ doc.emitted = Stripped(call.text.runs)

\* the grid a request asks for, clamped
gridCapacity == clampCharsPerRow(call.charsPerRow) * clampRowCount(call.rowCount)

\* charsPerRow and rowCount are integers in their ranges: nothing to clamp
ValidGrid ==
    /\ call.charsPerRow.t = "int" /\ call.charsPerRow.v \in 1..20
    /\ call.rowCount.t = "int" /\ call.rowCount.v \in 1..30

\* C3 (as stated): whenever charsPerRow * rowCount * totalPages >= stream
\* length, the returned Document has charactersDrawn = totalCharacters
\* (stated for the requests whose grid options are valid as supplied).
C3_TotalCapacitySuffices ==
    (pc = "done" /\ mp.pageBreakAfter # Undef /\ result.totalPages.t = "int" /\ ValidGrid) =>
        (gridCapacity * result.totalPages.v >= result.totalCharacters
            => result.charactersDrawn = result.totalCharacters)

\* charsPerRow and rowCount are integers in range and a page's slice fits the grid
SliceFitsGrid ==
    /\ ValidGrid
    /\ mp.pageBreakAfter.v <= call.charsPerRow.v * call.rowCount.v

\* C3 (amended): for a positive integer charsPerPage, charactersDrawn =
\* totalCharacters exactly when no page's slice exceeds that page's own grid,
\* which is so whenever charsPerRow in 1..20, rowCount in 1..30 and
\* charsPerPage <= charsPerRow * rowCount; otherwise every overfull page is
\* truncated and charactersDrawn < totalCharacters.
C3_CharacterConservation ==
    (pc = "done" /\ PosInt(mp.pageBreakAfter)) =>
        /\ result.charactersDrawn <= result.totalCharacters
        /\ (doc.overfull = 0) <=> (result.charactersDrawn = result.totalCharacters)
        /\ SliceFitsGrid => result.charactersDrawn = result.totalCharacters
        /\ result.totalCharacters = Length(Stripped(call.text.runs))

\* 170 characters in pages of 40 on a 10 x 10 grid: five pages, all drawn
C3_Witness ==
    /\ pc = "done"
    /\ mp.pageBreakAfter = Num(40)
    /\ SliceFitsGrid
    /\ result.totalCharacters = 170
    /\ result.charactersDrawn = 170
    /\ doc.images = 5

\* C4: for a positive integer charsPerPage, totalPages = ceil(totalCharacters /
\* charsPerPage), every page but the last holds charsPerPage characters and
\* the last holds the remainder; the returned Document reports that count.
C4_PageCount ==
    Paginating =>
        LET n == mp.pageBreakAfter.v
            total == Length(Stripped(call.text.runs))
            pages == CHOOSE k \in 0..total : k * n >= total /\ (k - 1) * n < total
        IN  /\ mp.totalPages = Num(pages)
            /\ lastPage.index >= 0 =>
                  /\ lastPage.index < pages
                  /\ Length(lastPage.text) = IF lastPage.index < pages - 1
                                             THEN n ELSE total - (pages - 1) * n
            /\ pc = "done" =>
                  /\ result.totalPages = Num(pages)
                  /\ result.pages = pages
                  /\ result.totalCharacters = total

\* 320 characters with charsPerPage = 150: the third and last page holds 20
C4_Witness ==
    /\ pc = "done"
    /\ mp.pageBreakAfter = Num(150)
    /\ result.totalCharacters = 320
    /\ result.totalPages = Num(3)
    /\ lastPage.index = 2
    /\ Length(lastPage.text) = 20

\* C5: generateCopybook with charsPerRow = 0 gives the layout and
\* charactersDrawn of charsPerRow = 1, with 21 those of 20, and with "abc"
\* those of the default 15.
C5_ClampingBoundary ==
    (pc = "done" /\ call.entry = "generateCopybook") =>
        LET same(v) ==
               LET r == generateCopybook(call.text.runs, v, call.rowCount)
               IN  /\ result.layout = r.layout
                   /\ result.charactersDrawn = r.charactersDrawn
        IN  /\ call.charsPerRow = Num(0) => same(Num(1))
            /\ call.charsPerRow = Num(21) => same(Num(20))
            /\ call.charsPerRow = Str => same(Num(15))

\* generatePDF ended in a validation error
Rejected == pc = "error" /\ result.error \in {"required", "empty", "too long"}

\* generatePDF was called and has passed or failed its validation
GeneratePDFCalled == pc # "idle" /\ call.entry = "generatePDF"

\* C6 (as stated): generatePDF fails with a validation error exactly when the
\* text is no string or its whitespace-stripped character count is 0 or more
\* than 2000.
C6_StrippedLengthDecides ==
    GeneratePDFCalled =>
        (Rejected <=>
            \/ ~call.text.isString
            \/ Length(Stripped(call.text.runs)) = 0
            \/ Length(Stripped(call.text.runs)) > 2000)

\* the characters of a canonical text between its leading and trailing whitespace
TrimmedLength(s) ==
    IF \A i \in 1..Len(s) : s[i].c \in WhiteSpace THEN 0
    ELSE Length(s) - (IF s[1].c \in WhiteSpace THEN s[1].n ELSE 0)
                   - (IF s[Len(s)].c \in WhiteSpace THEN s[Len(s)].n ELSE 0)

\* C6 (amended): generatePDF fails with a validation error and returns no
\* Document exactly when the text is no string or its trimmed length (leading
\* and trailing whitespace removed, whitespace inside counted) is 0 or more
\* than 2000; every accepted text has 1..2000 non-whitespace characters.
C6_TrimmedLengthDecides ==
    GeneratePDFCalled =>
        /\ Rejected <=>
              \/ ~call.text.isString
              \/ TrimmedLength(call.text.runs) = 0
              \/ TrimmedLength(call.text.runs) > 2000
        /\ Rejected => ~result.hasPdf /\ log.canvases = 0
        /\ ~Rejected => Length(Stripped(call.text.runs)) \in 1..2000

\* a text of 151 characters around 1999 blanks is rejected as too long
C6_Witness ==
    /\ GeneratePDFCalled
    /\ Rejected
    /\ result.error = "too long"
    /\ Length(Stripped(call.text.runs)) = 151
    /\ TrimmedLength(call.text.runs) = 2150

\* C7: on every entry point no layout is computed and no canvas is created
\* for a character stream longer than 2000.
C7_StreamCapEverywhere ==
    (log.canvases > 0 /\ call.text.isString) =>
        Length(Stripped(call.text.runs)) <= 2000

\* C8: multi-page generation through generatePDF raises no error for any
\* supplied pageBreakAfter and slices with a chunk size within [50, 500].
C8_ChunkSizeClamped ==
    (call.entry = "generatePDF" /\ call.multiPage /\ pc = "multiPage") =>
        /\ mp.pageBreakAfter.t = "int"
        /\ mp.pageBreakAfter.v >= 50
        /\ mp.pageBreakAfter.v <= 500
        /\ lastPage.index >= 0 => Length(lastPage.text) <= 500

\* C9: every value of charsPerRow and rowCount that enters a computation
\* (actualRowCount, layout, grid walk) is an integer in [1,20] resp. [1,30].
C9_ClampedBeforeUse ==
    /\ \A x \in log.usedCharsPerRow : x.t = "int" /\ x.v \in 1..20
    /\ \A x \in log.usedRowCount : x.t = "int" /\ x.v \in 1..30

\* C10: a page that fails ends the call in an error without a Document, and
\* a Document that is returned for a positive integer chunk size holds every
\* page of the stream, never only the pages before a failed one.
C10_FailFast ==
    /\ pc = "error" => result.status = "error" /\ ~result.hasPdf /\ result.pages = 0
    /\ (pc = "done" /\ PosInt(mp.pageBreakAfter)) =>
          /\ result.status = "ok"
          /\ result.pages = doc.images
          /\ Num(result.pages) = mp.totalPages
          /\ doc.emitted = mp.characters

\* the third page of a generatePDF call fails after two pages were placed
C10_Witness ==
    /\ pc = "error"
    /\ call.entry = "generatePDF"
    /\ result.error = "RenderError"
    /\ doc.images = 2
    /\ mp.page = 2
    /\ ~result.hasPdf

\* C11: on every font table, generateCopybook with an invalid or absent
\* fontType returns the fontFamily that fontType 'serif' returns.
C11_FontDefault ==
    (pc = "done" /\ call.fontType \notin FontKeys) =>
        result.fontFamily = getFontFamily("serif")

\* the layout metadata a caller receives: the layout of the single page or of
\* the last page of a document, the page count and the characters drawn
Metadata(f) ==
    [cellSize |-> IF f.result.hasPdf /\ f.lastPage.index >= 0
                  THEN f.lastPage.layout.cellSize ELSE f.result.layout.cellSize,
     totalWidth |-> IF f.result.hasPdf /\ f.lastPage.index >= 0
                    THEN f.lastPage.layout.totalWidth ELSE f.result.layout.totalWidth,
     totalHeight |-> IF f.result.hasPdf /\ f.lastPage.index >= 0
                     THEN f.lastPage.layout.totalHeight ELSE f.result.layout.totalHeight,
     totalPages |-> f.result.totalPages,
     charactersDrawn |-> f.result.charactersDrawn]

\* C12: two generation calls with the same text and options on the same
\* generators return the same layout metadata (cellSize, totalWidth,
\* totalHeight, totalPages, charactersDrawn), whatever calls ran before or
\* between them.
C12_Determinism ==
    \A i \in 1..Len(suspended) :
        (pc = "done" /\ suspended[i].pc = "done" /\ suspended[i].call = call)
            => Metadata(suspended[i]) = Metadata(Frame)

\* the five-page request of 170 characters has settled twice
C12_Witness ==
    /\ pc = "done"
    /\ Len(suspended) = 1
    /\ suspended[1].pc = "done"
    /\ suspended[1].call = call
    /\ call.entry = "generateMultiPagePDF"
    /\ call.pageBreakAfter = Num(40)
    /\ result.totalPages = Num(5)
    /\ result.charactersDrawn = 170
    /\ suspended[1].result.charactersDrawn = 170

\* generateMultiPagePDF run from locals m to its return without giving way:
\* the loop of the function, page after page
RECURSIVE multiPageAlone(_, _, _)
multiPageAlone(m, c, images) ==
    IF LessThan(m.page, m.totalPages) /\ Length(pageTextOf(m)) # 0
    THEN LET pageText == pageTextOf(m)
             actualRowCount == MathMin(c.rowCount,
                                       CeilDiv(Length(pageText), c.charsPerRow))
             canvasResult == generateCopybook(pageText, c.charsPerRow, actualRowCount)
         IN  multiPageAlone([m EXCEPT !.page = @ + 1,
                                      !.processedChars = @ + canvasResult.charactersDrawn],
                            c, images + 1)
    ELSE [NoResult EXCEPT !.status = "ok", !.hasPdf = TRUE, !.totalPages = m.totalPages,
                          !.charactersDrawn = m.processedChars,
                          !.totalCharacters = m.totalChars, !.pages = images]

\* the result of request c (a valid string text) when no other request runs
AloneResult(c) ==
    CASE c.entry = "generateMultiPagePDF" ->
            multiPageAlone(multiPageLocals(c.text.runs, c.pageBreakAfter), c, 0)
      [] c.entry = "generatePDF" ->
            IF c.multiPage /\ Truthy(c.pageBreakAfter)
            THEN multiPageAlone(multiPageLocals(validateText(c.text).cleanText,
                                                c.pageBreakAfter), c, 0)
            ELSE copybookResult(generateCopybook(validateText(c.text).cleanText,
                                                 c.charsPerRow, c.rowCount), 0, TRUE)
      [] c.entry = "generatePracticeSheets" ->
            [NoResult EXCEPT !.status = "ok", !.hasPdf = TRUE,
                             !.pages = IF c.includeAnswer THEN c.copies + 1 ELSE c.copies]
      [] c.entry = "/generate" ->
            copybookResult(generateCopybook(trim(c.text.runs),
                                            Num(OrDefault(parseInt(c.charsPerRow), 10)),
                                            Num(OrDefault(parseInt(c.rowCount), 10))),
                           200, FALSE)

\* every request that has settled, running or waiting, has the result it
\* has when it runs alone, and a waiting document holds its own pages only
RequestsIsolated ==
    /\ pc = "done" => result = AloneResult(call)
    /\ \A i \in 1..Len(suspended) :
          /\ suspended[i].pc = "done" => suspended[i].result = AloneResult(suspended[i].call)
          /\ suspended[i].pc = "multiPage" => suspended[i].doc.images = suspended[i].mp.page

\* C13: when requests run concurrently on the shared generators, interleaved
\* at every await, each request's result (pages, totalPages, charactersDrawn,
\* layout) is the result of running that request alone, and no step modifies
\* loadedFonts after construction.
C13_RequestIsolation ==
    /\ []RequestsIsolated
    /\ [][loadedFonts' = loadedFonts]_vars

\* a five-page request settles while a two-page request waits inside its loop
C13_Witness ==
    /\ pc = "done"
    /\ call.entry = "generateMultiPagePDF"
    /\ result.pages = 5
    /\ Len(suspended) = 1
    /\ suspended[1].pc = "multiPage"
    /\ suspended[1].call.entry = "generatePDF"
    /\ suspended[1].mp.page = 1

\* generateMultiPagePDF has set up its locals
InMultiPage == pc \in {"multiPage", "done"} /\ mp.pageBreakAfter # Undef

\* every completed iteration placed one non-empty slice, and there are no
\* more of them than characters in the stream
IterationsBounded ==
    InMultiPage =>
        /\ doc.images = mp.page
        /\ mp.page <= mp.totalChars
        /\ mp.totalChars <= MaxTextLength
        /\ lastPage.index >= 0 => Length(lastPage.text) >= 1
        /\ mp.pageBreakAfter.t = "int" =>
              mp.page * mp.pageBreakAfter.v < mp.totalChars + Max(mp.pageBreakAfter.v, 1)

\* C14: for every stream of at most 2000 characters and every pageBreakAfter
\* (0, negative, non-numeric, larger than the stream included)
\* generateMultiPagePDF leaves its loop: it returns, or rejects because a
\* page failed to render, after one completed iteration per non-empty slice.
C14_Termination ==
    /\ []IterationsBounded
    /\ (pc = "multiPage") ~> (pc \in {"done", "error"})

\* a stream of 2000 characters in pages of 40 has returned after 50 iterations
C14_Witness ==
    /\ pc = "done"
    /\ call.entry = "generateMultiPagePDF"
    /\ mp.pageBreakAfter = Num(40)
    /\ mp.totalChars = 2000
    /\ mp.page = 50
    /\ result.pages = 50

\* C15: for every charsPerRow in 1..20 and rowCount in 1..30 the canvas is
\* the largest square-cell grid that fits the page: totalWidth <= A4_WIDTH_PX
\* and totalHeight <= A4_HEIGHT_PX, with cellSize + 1 the grid and its
\* padding would overflow the page's width or its height, and cellSize >= 1.
C15_LargestCell ==
    (pc = "done" /\ call.entry = "generateCopybook" /\ ValidGrid) =>
        LET cellSize == result.layout.cellSize
        IN  /\ result.layout.charsPerRow = call.charsPerRow.v
            /\ result.layout.rowCount = call.rowCount.v
            /\ result.layout.totalWidth = call.charsPerRow.v * cellSize + 2 * padding
            /\ result.layout.totalHeight = call.rowCount.v * cellSize + 2 * padding
            /\ result.layout.totalWidth <= A4_WIDTH_PX
            /\ result.layout.totalHeight <= A4_HEIGHT_PX
            /\ \/ call.charsPerRow.v * (cellSize + 1) + 2 * padding > A4_WIDTH_PX
               \/ call.rowCount.v * (cellSize + 1) + 2 * padding > A4_HEIGHT_PX
            /\ cellSize >= 1

\* the densest grid, 20 columns of 30 rows: the height binds and the width
\* has room to spare
C15_Witness ==
    /\ pc = "done"
    /\ call.entry = "generateCopybook"
    /\ call.charsPerRow = Num(20)
    /\ call.rowCount = Num(30)
    /\ result.layout.cellSize = 114
    /\ result.layout.totalWidth = 2360
    /\ result.layout.totalHeight = 3500

RECURSIVE Concat(_)
\* the rows of a grid walk read in order
Concat(rows) == IF rows = <<>> THEN <<>> ELSE Norm(Head(rows).chars \o Concat(Tail(rows)))

\* C16: for a stream of n characters and the clamped grid of charsPerRow x
\* rowCount cells, generateCopybook draws exactly the first
\* min(n, charsPerRow * rowCount) characters of the stream, the k-th into
\* the cell at row k div charsPerRow, column k mod charsPerRow, reports that
\* number as charactersDrawn and leaves the other cells of the grid empty;
\* an empty stream draws nothing and is no error.
C16_CharacterPlacement ==
    (pc = "done" /\ call.entry = "generateCopybook") =>
        LET characters == Stripped(call.text.runs)
            n == Length(characters)
            charsPerRow == result.layout.charsPerRow
            rowCount == result.layout.rowCount
            drawn == IF n < charsPerRow * rowCount THEN n ELSE charsPerRow * rowCount
        IN  /\ charsPerRow = clampCharsPerRow(call.charsPerRow)
            /\ rowCount = clampRowCount(call.rowCount)
            /\ result.status = "ok"
            /\ result.charactersDrawn = drawn
            /\ result.totalCharacters = n
            /\ Concat(result.rows) = Take(characters, drawn)
            /\ charsPerRow * rowCount - result.charactersDrawn >= 0
            /\ \A i \in 1..Len(result.rows) :
                  LET r == result.rows[i]
                  IN  /\ r.chars = slice(characters, r.charIndex,
                                         r.charIndex + Length(r.chars))
                      /\ Length(r.chars) >= 1
                      /\ \A j \in 0..(Length(r.chars) - 1) :
                            LET k == r.charIndex + j
                            IN  /\ k < drawn
                                /\ r.row = k \div charsPerRow
                                /\ r.col + j = k % charsPerRow

\* four characters in a grid of 10 x 10: 4 drawn in the first row, 96 cells empty
C16_Witness ==
    /\ pc = "done"
    /\ call.entry = "generateCopybook"
    /\ call.charsPerRow = Num(10)
    /\ call.rowCount = Num(10)
    /\ result.totalCharacters = 4
    /\ result.charactersDrawn = 4
    /\ Len(result.rows) = 1
    /\ result.layout.charsPerRow * result.layout.rowCount - result.charactersDrawn = 96

\* the loop of generateMultiPagePDF has produced a page of a request whose
\* charsPerRow and rowCount are integers in their ranges
PageOfValidGrid ==
    /\ pc \in {"multiPage", "done"}
    /\ lastPage.index >= 0
    /\ ValidGrid

\* C17: for charsPerRow in 1..20 and rowCount in 1..30 the layout of every
\* page of generateMultiPagePDF has rowCount = min(requested rowCount,
\* ceil(slice length / charsPerRow)); a last page of 20 characters at 10 per
\* row has 2 rows.
C17_PerPageRowCount ==
    PageOfValidGrid =>
        LET sliceLength == Length(lastPage.text)
            needed == (sliceLength + call.charsPerRow.v - 1) \div call.charsPerRow.v
        IN  /\ lastPage.layout.charsPerRow = call.charsPerRow.v
            /\ lastPage.layout.rowCount = IF call.rowCount.v < needed
                                          THEN call.rowCount.v ELSE needed
            /\ lastPage.actualRowCount = Num(lastPage.layout.rowCount)

\* the second and last page of 170 characters holds 20: two rows of 10
C17_Witness ==
    /\ pc = "done"
    /\ call.charsPerRow = Num(10)
    /\ call.rowCount = Num(15)
    /\ mp.pageBreakAfter = Num(150)
    /\ lastPage.index = 1
    /\ Length(lastPage.text) = 20
    /\ lastPage.layout.rowCount = 2

\* the page produced last is a full one: its slice holds charsPerPage characters
FullPage ==
    /\ PageOfValidGrid
    /\ PosInt(mp.pageBreakAfter)
    /\ Length(lastPage.text) = mp.pageBreakAfter.v

\* C18 (as stated): every page of generateMultiPagePDF whose slice holds
\* exactly charsPerPage characters is laid out with the full requested
\* rowCount.
C18_FullPagesKeepRowCount ==
    FullPage => lastPage.layout.rowCount = call.rowCount.v

\* the rows that charsPerPage characters need at charsPerRow per row
FullPageRows ==
    (mp.pageBreakAfter.v + call.charsPerRow.v - 1) \div call.charsPerRow.v

\* C18 (amended): for charsPerRow in 1..20 and rowCount in 1..30, a page
\* whose slice holds exactly charsPerPage characters is laid out with
\* min(rowCount, ceil(charsPerPage / charsPerRow)) rows, which is the
\* requested rowCount exactly when charsPerPage > charsPerRow * (rowCount - 1);
\* no page has more rows than that, and only the last page may have fewer.
C18_FullPageRows ==
    /\ FullPage =>
          /\ lastPage.layout.rowCount
                = IF call.rowCount.v < FullPageRows THEN call.rowCount.v ELSE FullPageRows
          /\ (lastPage.layout.rowCount = call.rowCount.v)
                <=> (mp.pageBreakAfter.v > call.charsPerRow.v * (call.rowCount.v - 1))
    /\ (PageOfValidGrid /\ PosInt(mp.pageBreakAfter)) =>
          /\ lastPage.layout.rowCount <= call.rowCount.v
          /\ lastPage.layout.rowCount <= FullPageRows
          /\ Length(lastPage.text) < mp.pageBreakAfter.v =>
                lastPage.endIndex = mp.totalChars

\* a full page of 40 characters at 10 per row in a requested grid of 10 rows
\* is laid out with 4 rows, before a last page of 10 characters
C18_Witness ==
    /\ pc = "multiPage"
    /\ call.charsPerRow = Num(10)
    /\ call.rowCount = Num(10)
    /\ mp.pageBreakAfter = Num(40)
    /\ mp.totalChars = 170
    /\ lastPage.index = 3
    /\ Length(lastPage.text) = 40
    /\ lastPage.layout.rowCount = 4

\* the page produced last is the one before the loop's counter, it is the
\* only place its image went to, and its footer is written after its image
PagesInOrder ==
    (InMultiPage /\ lastPage.index >= 0) =>
        /\ lastPage.index = mp.page - 1
        /\ doc.images = lastPage.index + 1
        /\ doc.addPages = lastPage.index
        /\ lastPage.startIndex = lastPage.index * mp.pageBreakAfter.v
        /\ lastPage.footer = <<Num(lastPage.index + 1), mp.totalPages>>
        /\ lastPage.ops = IF lastPage.index = 0 THEN <<"image", "text">>
                          ELSE <<"addPage", "image", "text">>

\* a step that produces a page produces the next index, and the page count
\* of the footers does not change while the loop runs
NextPageFollows ==
    /\ lastPage'.index # lastPage.index =>
          \/ lastPage'.index = lastPage.index + 1 /\ pc = "multiPage"
          \/ lastPage' = NoPage
    /\ (pc = "multiPage" /\ pc' \in {"multiPage", "done"}) =>
          /\ mp'.totalPages = mp.totalPages
          /\ pc' = "done" => result'.totalPages = mp.totalPages

\* C19: generateMultiPagePDF emits its pages in strictly increasing index
\* order 0, 1, ... and revisits none; the image of page i is placed before
\* its footer and before page i+1 is started; the footer of page i shows
\* page number i+1 and the same totalPages on every page.
C19_PageOrdering ==
    /\ []PagesInOrder
    /\ [][NextPageFollows]_vars

\* the fifth page of 170 characters in pages of 40 carries the footer 5 of 5
C19_Witness ==
    /\ pc = "done"
    /\ mp.pageBreakAfter = Num(40)
    /\ lastPage.index = 4
    /\ lastPage.footer = <<Num(5), Num(5)>>
    /\ lastPage.ops = <<"addPage", "image", "text">>
    /\ doc.addPages = 4
    /\ result.totalPages = Num(5)

\* an image is scaled by one factor, fits the content area, fills its width
\* or its height, and has equal gaps left and right and above and below
UniformAndCentered(image) ==
    LET canvasWidth == Whole(image.canvasWidth)
        canvasHeight == Whole(image.canvasHeight)
        leftGap == FracSub(image.x, margins.left)
        rightGap == FracSub(FracSub(A4_WIDTH_POINTS, margins.right),
                            FracAdd(image.x, image.width))
        topGap == FracSub(image.y, margins.top)
        bottomGap == FracSub(FracSub(A4_HEIGHT_POINTS, margins.bottom),
                             FracAdd(image.y, image.height))
    IN  /\ image.width = FracMul(canvasWidth, image.scale)
        /\ image.height = FracMul(canvasHeight, image.scale)
        /\ FracMul(image.width, canvasHeight) = FracMul(image.height, canvasWidth)
        /\ FracLE(image.width, availableWidth)
        /\ FracLE(image.height, availableHeight)
        /\ image.width = availableWidth \/ image.height = availableHeight
        /\ leftGap = rightGap
        /\ topGap = bottomGap
        /\ FracLE(Whole(0), leftGap)
        /\ FracLE(Whole(0), topGap)

MultiPageReturned == pc = "done" /\ mp.pageBreakAfter # Undef

\* C21: whenever generateMultiPagePDF returns, the number of page images
\* placed into the PDF equals the returned totalPages, addPage was called
\* exactly totalPages - 1 times, and totalPages >= 1, for every
\* pageBreakAfter the function can receive (0, negative and fractional too).
C21_PageCountMatchesDocument ==
    MultiPageReturned =>
        /\ result.totalPages.t = "int"
        /\ result.totalPages.v >= 1
        /\ doc.images = result.totalPages.v
        /\ result.pages = result.totalPages.v
        /\ doc.addPages = result.totalPages.v - 1

====
